---- MODULE Spec2Model ----
(***************************************************************************)
(* Model of timetracker/timetrack_summary.py: the summarize and list_tags  *)
(* commands over an append-only log of start/stop events.                  *)
(*                                                                         *)
(* Time.  An instant of the log is a whole number of seconds since         *)
(* 2023-01-01T00:00:00Z.  A wall-clock datetime in America/New_York is a   *)
(* whole number of seconds since 2023-01-01T00:00:00 local.  Two aware     *)
(* datetimes that share one tzinfo are compared and subtracted by their    *)
(* wall-clock fields, so the model compares and subtracts wall-clock       *)
(* numbers.  Fractions of a second are not modelled.                       *)
(***************************************************************************)
EXTENDS Integers, Sequences, FiniteSets, TLC

VARIABLES
    fn,                  \* the command run: "summarize" or "list_tags"
    period,              \* summarize's period argument
    show_tags,           \* summarize's show_tags argument
    log_exists,          \* LOG_FILE.exists()
    file,                \* the lines of LOG_FILE, each a sequence of tokens
    now_eastern,         \* datetime.now(EASTERN), wall clock
    pc,                  \* position in the command
    start_time,          \* summarize: window start (None when invalid)
    end_time,            \* summarize: window end
    entries,             \* parsed log entries
    i,                   \* index of the next entry of the pairing loop
    pending_starts,      \* key -> sequence of <<start_time, tags, line index>>
    sessions,            \* emitted sessions, in the order of their stops
    by_category_project, \* insertion-ordered dict: sequence of <<key, total>>
    total_seconds,       \* grand total
    sorted_items,        \* by_category_project sorted by duration, descending
    tag_durations,       \* show_tags: per sorted item, its dict tag key -> seconds
    out                  \* the lines printed so far

vars == <<fn, period, show_tags, log_exists, file, now_eastern, pc, start_time,
          end_time, entries, i, pending_starts, sessions, by_category_project,
          total_seconds, sorted_items, tag_durations, out>>

-----------------------------------------------------------------------------
(* Bounds of the model.                                                    *)

\* longest log of the general specification
MaxLen == 3
\* longest log of the pairing specification
MaxPairLen == 4
\* most start/stop blocks of a log of the report specification
MaxBlocks == 3
MaxListLen == 3
MaxHours == 25
MaxActionsLen == 3
MaxTagBlocks == 3
MaxTagLen == 4
MaxWeeks == 1

-----------------------------------------------------------------------------
(* Calendar: the proleptic Gregorian calendar of datetime, from 2023 on.   *)

EpochYear == 2023

Day == 86400

IsLeap(y) == (y % 4 = 0 /\ y % 100 # 0) \/ y % 400 = 0

DaysInYear(y) == IF IsLeap(y) THEN 366 ELSE 365

DaysInMonth(y, m) ==
    IF m = 2 THEN (IF IsLeap(y) THEN 29 ELSE 28)
    ELSE IF m \in {4, 6, 9, 11} THEN 30 ELSE 31

RECURSIVE DaysBeforeYear(_)
DaysBeforeYear(y) ==
    IF y <= EpochYear THEN 0 ELSE DaysBeforeYear(y - 1) + DaysInYear(y - 1)

RECURSIVE DaysBeforeMonth(_, _)
DaysBeforeMonth(y, m) ==
    IF m <= 1 THEN 0 ELSE DaysBeforeMonth(y, m - 1) + DaysInMonth(y, m - 1)

\* datetime(y, m, d, 0, 0, 0) as a wall-clock number
Midnight(y, m, d) == Day * (DaysBeforeYear(y) + DaysBeforeMonth(y, m) + d - 1)

RECURSIVE YearFrom(_, _)
YearFrom(d, y) == IF d < DaysInYear(y) THEN y ELSE YearFrom(d - DaysInYear(y), y + 1)

\* dt.year
YearOf(t) == YearFrom(t \div Day, EpochYear)

RECURSIVE MonthFrom(_, _, _)
MonthFrom(d, y, m) ==
    IF d < DaysInMonth(y, m) THEN m ELSE MonthFrom(d - DaysInMonth(y, m), y, m + 1)

\* dt.month
MonthOf(t) == MonthFrom((t \div Day) - DaysBeforeYear(YearOf(t)), YearOf(t), 1)

\* dt.weekday(): Monday is 0, Sunday is 6; 2023-01-01 was a Sunday
Weekday(t) == ((t \div Day) + 6) % 7

-----------------------------------------------------------------------------
(* America/New_York: UTC-4 between the second Sunday of March, 07:00 UTC,  *)
(* and the first Sunday of November, 06:00 UTC; UTC-5 otherwise.           *)

DstBegin(y) ==
    LET first == Midnight(y, 3, 1)
        sunday == first + Day * ((6 - Weekday(first)) % 7)
    IN  sunday + 7 * Day + 7 * 3600

DstEnd(y) ==
    LET first == Midnight(y, 11, 1)
        sunday == first + Day * ((6 - Weekday(first)) % 7)
    IN  sunday + 6 * 3600

UtcOffset(utc) ==
    IF \E y \in EpochYear .. EpochYear + 3 : DstBegin(y) <= utc /\ utc < DstEnd(y)
    THEN -4 * 3600 ELSE -5 * 3600

\* timestamp_utc.astimezone(EASTERN), as a wall-clock number
AsEastern(utc) == utc + UtcOffset(utc)

-----------------------------------------------------------------------------
(* parse_log_line.  A line is the sequence of its whitespace-separated     *)
(* tokens.  The first token stands for its own ISO-8601 reading: the       *)
(* instant it denotes, or Unparsable when fromisoformat raises ValueError. *)
(* The result is a sequence: empty for None, else holding the one entry.   *)

Unparsable == -1

\* parts[4:] if len(parts) > 4 else []
TagsOf(parts) == IF Len(parts) > 4 THEN SubSeq(parts, 5, Len(parts)) ELSE <<>>

parse_log_line(parts) ==
    IF Len(parts) < 4 THEN <<>>
    ELSE IF parts[1] = Unparsable THEN <<>>
    ELSE << [timestamp |-> AsEastern(parts[1]),
             action    |-> parts[2],
             category  |-> parts[3],
             project   |-> parts[4],
             tags      |-> TagsOf(parts)] >>

\* for line in f: entry = parse_log_line(line); if entry: entries.append(entry)
RECURSIVE ReadEntries(_)
ReadEntries(lines) ==
    IF lines = <<>> THEN <<>>
    ELSE ReadEntries(SubSeq(lines, 1, Len(lines) - 1))
            \o parse_log_line(lines[Len(lines)])

-----------------------------------------------------------------------------
(* get_time_range                                                          *)

\* the start and the end returned for an unknown period
None == -2

\* an unknown period taken as 'day' instead of returning None, None
get_time_range_default(p, now) ==
    LET today_start == (now \div Day) * Day
        y == YearOf(today_start)
        m == MonthOf(today_start)
    IN  IF p = "week" THEN
            LET start == today_start - Day * (Weekday(now) % 7)
            IN  <<start, start + 7 * Day>>
        ELSE IF p = "month" THEN
            IF m = 12 THEN <<Midnight(y, m, 1), Midnight(y + 1, 1, 1)>>
            ELSE <<Midnight(y, m, 1), Midnight(y, m + 1, 1)>>
        ELSE IF p = "year" THEN <<Midnight(y, 1, 1), Midnight(y + 1, 1, 1)>>
        ELSE <<today_start, today_start + Day>>

\* the week counted from Sunday, as with a weekday numbered from Sunday = 0
get_time_range_sunday_week(p, now) ==
    LET today_start == (now \div Day) * Day
        y == YearOf(today_start)
        m == MonthOf(today_start)
    IN  IF p = "day" THEN <<today_start, today_start + Day>>
        ELSE IF p = "week" THEN
            LET days_since_sunday == (Weekday(now) + 1) % 7
                start == today_start - Day * days_since_sunday
            IN  <<start, start + 7 * Day>>
        ELSE IF p = "month" THEN
            IF m = 12 THEN <<Midnight(y, m, 1), Midnight(y + 1, 1, 1)>>
            ELSE <<Midnight(y, m, 1), Midnight(y, m + 1, 1)>>
        ELSE IF p = "year" THEN <<Midnight(y, 1, 1), Midnight(y + 1, 1, 1)>>
        ELSE <<None, None>>

\* now_eastern.replace(hour=0, minute=0, second=0, microsecond=0)
TodayStart(now) == (now \div Day) * Day

get_time_range(p, now) ==
    LET today_start == TodayStart(now)
        y == YearOf(today_start)
        m == MonthOf(today_start)
    IN  IF p = "day" THEN <<today_start, today_start + Day>>
        ELSE IF p = "week" THEN
            LET days_since_monday == Weekday(now) % 7
                start == today_start - Day * days_since_monday
            IN  <<start, start + 7 * Day>>
        ELSE IF p = "month" THEN
            LET start == Midnight(y, m, 1)
            IN  IF m = 12 THEN <<start, Midnight(y + 1, 1, 1)>>
                ELSE <<start, Midnight(y, m + 1, 1)>>
        ELSE IF p = "year" THEN <<Midnight(y, 1, 1), Midnight(y + 1, 1, 1)>>
        ELSE <<None, None>>

-----------------------------------------------------------------------------
(* format_duration and the strings of the report                           *)

\* f"{minutes:02d}"
TwoDigits(n) == IF 0 <= n /\ n < 10 THEN "0" \o ToString(n) ELSE ToString(n)

\* the minutes rounded to the nearest instead of cut off
format_duration_rounded(seconds) ==
    LET hours == seconds \div 3600
        minutes == ((seconds % 3600) + 30) \div 60
    IN  ToString(hours) \o ":" \o TwoDigits(minutes)

\* lines 89-93
format_duration(seconds) ==
    LET hours == seconds \div 3600
        minutes == (seconds % 3600) \div 60
    IN  ToString(hours) \o ":" \o TwoDigits(minutes)

\* str.capitalize(), on the period words of the model
Capitalize(s) ==
    CASE s = "day" -> "Day"
      [] s = "week" -> "Week"
      [] s = "month" -> "Month"
      [] s = "year" -> "Year"
      [] OTHER -> s

\* "=" * 50
Rule == "=================================================="

\* Python's order of the strings the model sorts (code-point order)
Lexicon ==
    <<"billable", "client-x", "deep", "home", "late", "p1", "p2", "urgent", "work">>

Rank(s) == CHOOSE k \in 1 .. Len(Lexicon) : Lexicon[k] = s

\* a < b on strings
StrLess(a, b) == Rank(a) < Rank(b)

-----------------------------------------------------------------------------
(* summarize: the pairing loop (lines 121-150)                             *)

\* the project alone taken as the key
KeyOfProjectOnly(entry) == <<entry.project, entry.project>>

KeyOf(entry) == <<entry.category, entry.project>>

\* a window closed at its end: entry_time > end_time for entry_time >= end_time
InWindowClosed(entry_time, s, e) == ~(entry_time < s \/ entry_time > e)

\* only the start of the window tested: the second half of line 129 left out
InWindowNoEnd(entry_time, s, e) == ~(entry_time < s)

\* not (entry_time < start_time or entry_time >= end_time)
InWindow(entry_time, s, e) == ~(entry_time < s \/ entry_time >= e)

\* a stack instead of a queue: pending_starts[key].pop()
PopNewest(q) == [item |-> q[Len(q)], rest |-> SubSeq(q, 1, Len(q) - 1)]

\* pending_starts[key].pop(0): the item removed and the list left
Pop(q) == [item |-> q[1], rest |-> Tail(q)]

\* the operands exchanged: (start - entry_time).total_seconds()
DurationReversed(start, entry_time) == start - entry_time

\* (entry_time - start).total_seconds()
Duration(start, entry_time) == entry_time - start

\* the start put at the front of the key's list: insert(0, ...) for append(...)
OnStartPrepend(pending, entry, idx) ==
    LET key == <<entry.category, entry.project>>
        item == <<entry.timestamp, entry.tags, idx>>
    IN  IF key \notin DOMAIN pending
        THEN pending @@ (key :> <<item>>)
        ELSE [pending EXCEPT ![key] = <<item>> \o @]

\* the start branch: append (entry_time, tags) to the key's list, created
\* when absent.  The third component is the entry's place in the log, kept
\* for the record of which start a session came from.
OnStart(pending, entry, idx) ==
    LET key == KeyOf(entry)
        item == <<entry.timestamp, entry.tags, idx>>
    IN  IF key \notin DOMAIN pending
        THEN pending @@ (key :> <<item>>)
        ELSE [pending EXCEPT ![key] = Append(@, item)]

\* key in pending_starts and pending_starts[key]
HasPending(pending, key) == key \in DOMAIN pending /\ pending[key] # <<>>

\* the session given the tags of the stop entry that closes it
SessionOfStopTags(entry, popped, idx) ==
    [category |-> entry.category,
     project  |-> entry.project,
     start    |-> popped[1],
     end      |-> entry.timestamp,
     duration |-> Duration(popped[1], entry.timestamp),
     tags     |-> entry.tags,
     si       |-> popped[3],
     ei       |-> idx]

\* the session appended by the stop branch; si and ei are the places in the
\* log of the start and of the stop it pairs
SessionOf(entry, popped, idx) ==
    [category |-> entry.category,
     project  |-> entry.project,
     start    |-> popped[1],
     end      |-> entry.timestamp,
     duration |-> Duration(popped[1], entry.timestamp),
     tags     |-> popped[2],
     si       |-> popped[3],
     ei       |-> idx]

\* a stop branch without the test of line 140: a stop that finds no pending
\* start opens and closes a session of its own
OnStopAlways(pending, sess, entry, idx) ==
    LET key == KeyOf(entry)
        own == <<entry.timestamp, <<>>, idx>>
    IN  IF HasPending(pending, key)
        THEN [pending  |-> [pending EXCEPT ![key] = Pop(pending[key]).rest],
              sessions |-> Append(sess, SessionOf(entry, Pop(pending[key]).item, idx))]
        ELSE [pending |-> pending, sessions |-> Append(sess, SessionOf(entry, own, idx))]

\* the stop branch
OnStop(pending, sess, entry, idx) ==
    LET key == KeyOf(entry)
    IN  IF HasPending(pending, key)
        THEN [pending  |-> [pending EXCEPT ![key] = Pop(pending[key]).rest],
              sessions |-> Append(sess, SessionOf(entry, Pop(pending[key]).item, idx))]
        ELSE [pending |-> pending, sessions |-> sess]

\* every action that is not "start" taken for a stop: else for the elif of
\* line 138
PairEntryElseStop(pending, sess, entry, idx, s, e) ==
    IF ~InWindow(entry.timestamp, s, e)
    THEN [pending |-> pending, sessions |-> sess]
    ELSE IF entry.action = "start"
    THEN [pending |-> OnStart(pending, entry, idx), sessions |-> sess]
    ELSE OnStop(pending, sess, entry, idx)

\* one iteration of `for entry in entries`: the new pending_starts and sessions
PairEntry(pending, sess, entry, idx, s, e) ==
    IF ~InWindow(entry.timestamp, s, e)
    THEN [pending |-> pending, sessions |-> sess]
    ELSE IF entry.action = "start"
    THEN [pending |-> OnStart(pending, entry, idx), sessions |-> sess]
    ELSE IF entry.action = "stop"
    THEN OnStop(pending, sess, entry, idx)
    ELSE [pending |-> pending, sessions |-> sess]

-----------------------------------------------------------------------------
(* summarize: aggregation and sorting (lines 157-174)                      *)
(* A dict is a sequence of <<key, value>> pairs in insertion order.        *)

HasKey(dict, key) == \E k \in 1 .. Len(dict) : dict[k][1] = key

IndexOf(dict, key) == CHOOSE k \in 1 .. Len(dict) : dict[k][1] = key

\* an assignment for the addition: dict[key] = amount
AddToOverwrite(dict, key, amount) ==
    IF HasKey(dict, key)
    THEN [dict EXCEPT ![IndexOf(dict, key)] = <<key, amount>>]
    ELSE Append(dict, <<key, amount>>)

\* defaultdict(float): dict[key] += amount
AddTo(dict, key, amount) ==
    IF HasKey(dict, key)
    THEN [dict EXCEPT ![IndexOf(dict, key)] = <<key, @[2] + amount>>]
    ELSE Append(dict, <<key, 0 + amount>>)

\* for session in sessions: by_category_project[key] += session['duration']
RECURSIVE GroupByKey(_)
GroupByKey(sess) ==
    IF sess = <<>> THEN <<>>
    ELSE LET last == sess[Len(sess)]
         IN  AddTo(GroupByKey(SubSeq(sess, 1, Len(sess) - 1)),
                   <<last.category, last.project>>, last.duration)

\* for session in sessions: total_seconds += session['duration']
RECURSIVE TotalOf(_)
TotalOf(sess) ==
    IF sess = <<>> THEN 0
    ELSE TotalOf(SubSeq(sess, 1, Len(sess) - 1)) + sess[Len(sess)].duration

\* x put before its equals: an ascending sort reversed, which turns ties round
RECURSIVE InsertDescBeforeEquals(_, _)
InsertDescBeforeEquals(sorted, x) ==
    IF sorted = <<>> THEN <<x>>
    ELSE IF Head(sorted)[2] > x[2]
    THEN <<Head(sorted)>> \o InsertDescBeforeEquals(Tail(sorted), x)
    ELSE <<x>> \o sorted

\* x put into a sequence sorted by value descending, after its equals
RECURSIVE InsertDesc(_, _)
InsertDesc(sorted, x) ==
    IF sorted = <<>> THEN <<x>>
    ELSE IF Head(sorted)[2] >= x[2]
    THEN <<Head(sorted)>> \o InsertDesc(Tail(sorted), x)
    ELSE <<x>> \o sorted

\* sorted(items, key=lambda x: x[1], reverse=True): stable, descending
RECURSIVE SortDesc(_)
SortDesc(items) ==
    IF items = <<>> THEN <<>>
    ELSE InsertDesc(SortDesc(SubSeq(items, 1, Len(items) - 1)), items[Len(items)])

-----------------------------------------------------------------------------
(* summarize: the tag breakdown of one project (lines 188-209)             *)

RECURSIVE InsertStr(_, _)
InsertStr(sorted, x) ==
    IF sorted = <<>> THEN <<x>>
    ELSE IF StrLess(x, Head(sorted))
    THEN <<x>> \o sorted
    ELSE <<Head(sorted)>> \o InsertStr(Tail(sorted), x)

\* sorted(strings)
RECURSIVE SortStrs(_)
SortStrs(strs) ==
    IF strs = <<>> THEN <<>>
    ELSE InsertStr(SortStrs(SubSeq(strs, 1, Len(strs) - 1)), strs[Len(strs)])

\* the tags taken as the key in the order written: tuple(s['tags'])
TagKeyUnsorted(tags) == IF tags # <<>> THEN tags ELSE <<>>

\* tuple(sorted(s['tags'])) if s['tags'] else tuple()
TagKey(tags) == IF tags # <<>> THEN SortStrs(tags) ELSE <<>>

\* [s for s in sessions if s['category'] == category and s['project'] == project]
ProjectSessions(sess, category, project) ==
    SelectSeq(sess, LAMBDA s : s.category = category /\ s.project = project)

\* the sessions without tags left out of the breakdown
RECURSIVE TagDurationsTaggedOnly(_)
TagDurationsTaggedOnly(sess) ==
    IF sess = <<>> THEN <<>>
    ELSE LET last == sess[Len(sess)]
             before == TagDurationsTaggedOnly(SubSeq(sess, 1, Len(sess) - 1))
         IN  IF last.tags = <<>> THEN before
             ELSE AddTo(before, TagKey(last.tags), last.duration)

\* for s in project_sessions: tag_durations[tag_key] += s['duration']
RECURSIVE TagDurations(_)
TagDurations(sess) ==
    IF sess = <<>> THEN <<>>
    ELSE LET last == sess[Len(sess)]
         IN  AddTo(TagDurations(SubSeq(sess, 1, Len(sess) - 1)),
                   TagKey(last.tags), last.duration)

\* ', '.join(tag_tuple)
RECURSIVE JoinComma(_)
JoinComma(strs) ==
    IF Len(strs) = 1 THEN strs[1]
    ELSE JoinComma(SubSeq(strs, 1, Len(strs) - 1)) \o ", " \o strs[Len(strs)]

\* the line of one tag sub-bucket
TagLine(item) ==
    IF item[1] # <<>>
    THEN "      [" \o JoinComma(item[1]) \o "]: " \o format_duration(item[2])
    ELSE "      [no tags]: " \o format_duration(item[2])

RECURSIVE TagLines(_)
TagLines(items) ==
    IF items = <<>> THEN <<>>
    ELSE <<TagLine(Head(items))>> \o TagLines(Tail(items))

\* the tag_durations dict of every sorted item, in the order of the loop of
\* line 177; nothing is computed when show_tags is not set
AllTagDurations(items, sess, tagged) ==
    IF tagged
    THEN [ k \in 1 .. Len(items) |->
             TagDurations(ProjectSessions(sess, items[k][1][1], items[k][1][2])) ]
    ELSE <<>>

\* the lines printed under one project when show_tags is set
TagBreakdown(sess, category, project) ==
    TagLines(SortDesc(TagDurations(ProjectSessions(sess, category, project))))

-----------------------------------------------------------------------------
(* summarize: the printed report (lines 166-217)                           *)

\* the header of a category printed once, before the first of its projects,
\* as if the items came grouped by category
RECURSIVE BreakdownLinesOncePerCategory(_, _, _, _, _)
BreakdownLinesOncePerCategory(items, k, current_category, sess, tagged) ==
    IF k > Len(items) THEN <<>>
    ELSE LET category == items[k][1][1]
             project == items[k][1][2]
             seen == { items[j][1][1] : j \in 1 .. k - 1 }
             header == IF category \notin seen
                       THEN (IF seen # {} THEN <<"">> ELSE <<>>)
                            \o <<"  " \o category \o "/">>
                       ELSE <<>>
             line == "    " \o project \o ": " \o format_duration(items[k][2])
         IN  header \o <<line>>
               \o (IF tagged THEN TagBreakdown(sess, category, project) ELSE <<>>)
               \o BreakdownLinesOncePerCategory(items, k + 1, category, sess, tagged)

\* the lines of the breakdown from the k-th sorted item on; current_category
\* is the category of the item before, and "" stands for None (no token of a
\* line is empty)
RECURSIVE BreakdownLines(_, _, _, _, _)
BreakdownLines(items, k, current_category, sess, tagged) ==
    IF k > Len(items) THEN <<>>
    ELSE LET category == items[k][1][1]
             project == items[k][1][2]
             header == IF category # current_category
                       THEN (IF current_category # "" THEN <<"">> ELSE <<>>)
                            \o <<"  " \o category \o "/">>
                       ELSE <<>>
             line == "    " \o project \o ": " \o format_duration(items[k][2])
         IN  header \o <<line>>
               \o (IF tagged THEN TagBreakdown(sess, category, project) ELSE <<>>)
               \o BreakdownLines(items, k + 1, category, sess, tagged)

ReportLines(p, total, items, sess, tagged, parse_time_str) ==
    << "Time Summary - This " \o Capitalize(p),
       Rule,
       "Total: " \o format_duration(total),
       "",
       "Breakdown:" >>
    \o BreakdownLines(items, 1, "", sess, tagged)
    \o << "", "(" \o parse_time_str \o " to parse log file)" >>

\* the two shapes of parse_time_str: milliseconds under one second, else seconds
ParseTimeStrs == {"0.250ms", "1.50s"}

-----------------------------------------------------------------------------
(* list_tags (lines 220-262)                                               *)

\* the tags of every entry taken, whatever its action
TagsByProjectAnyAction(ents) ==
    UNION { { <<ents[k].category, ents[k].project, ents[k].tags[j]>> :
                j \in 1 .. Len(ents[k].tags) } :
            k \in { n \in 1 .. Len(ents) : ents[n].tags # <<>> } }

\* tags_by_project[category][project].add(tag), as <<category, project, tag>>
TagsByProject(ents) ==
    UNION { { <<ents[k].category, ents[k].project, ents[k].tags[j]>> :
                j \in 1 .. Len(ents[k].tags) } :
            k \in { n \in 1 .. Len(ents) :
                      ents[n].action = "start" /\ ents[n].tags # <<>> } }

\* sorted(set of strings)
RECURSIVE SortSet(_)
SortSet(S) ==
    IF S = {} THEN <<>>
    ELSE LET least == CHOOSE x \in S : \A y \in S : ~StrLess(y, x)
         IN  <<least>> \o SortSet(S \ {least})

RECURSIVE TagItemLines(_)
TagItemLines(tags) ==
    IF tags = <<>> THEN <<>>
    ELSE <<"      - " \o Head(tags)>> \o TagItemLines(Tail(tags))

RECURSIVE ProjectTagLines(_, _, _)
ProjectTagLines(tbp, category, projects) ==
    IF projects = <<>> THEN <<>>
    ELSE LET project == Head(projects)
             tags == SortSet({ t[3] : t \in { u \in tbp : u[1] = category /\ u[2] = project } })
         IN  <<"    " \o project \o ":">> \o TagItemLines(tags)
               \o ProjectTagLines(tbp, category, Tail(projects))

RECURSIVE CategoryTagLines(_, _)
CategoryTagLines(tbp, categories) ==
    IF categories = <<>> THEN <<>>
    ELSE LET category == Head(categories)
             projects == SortSet({ t[2] : t \in { u \in tbp : u[1] = category } })
         IN  <<"", "  " \o category \o "/">>
               \o ProjectTagLines(tbp, category, projects)
               \o CategoryTagLines(tbp, Tail(categories))

ListTagsLines(tbp) ==
    IF tbp = {} THEN <<"No tags found in any projects.">>
    ELSE <<"Tags by Project", Rule>>
           \o CategoryTagLines(tbp, SortSet({ t[1] : t \in tbp }))

-----------------------------------------------------------------------------
(* The commands                                                            *)

\* the message printed and the return of line 100 left out: the run goes on
\* as over an empty log
SummarizeNoLogGoesOn ==
    /\ pc = "call" /\ fn = "summarize"
    /\ ~log_exists
    /\ out' = Append(out, "No log file found.")
    /\ entries' = <<>>
    /\ i' = 1
    /\ pc' = "pair"
    /\ UNCHANGED <<fn, period, show_tags, log_exists, file, now_eastern,
                   start_time, end_time, pending_starts, sessions,
                   by_category_project, total_seconds, sorted_items, tag_durations>>

\* summarize, lines 98-100: no log file
SummarizeNoLog ==
    /\ pc = "call" /\ fn = "summarize"
    /\ ~log_exists
    /\ out' = Append(out, "No log file found.")
    /\ pc' = "done"
    /\ UNCHANGED <<fn, period, show_tags, log_exists, file, now_eastern,
                   start_time, end_time, entries, i, pending_starts, sessions,
                   by_category_project, total_seconds, sorted_items, tag_durations>>

\* the messages of lines 104-105
InvalidPeriodLines(p) ==
    <<"Invalid period: " \o p, "Valid periods: day, week, month, year">>

\* summarize, lines 102-106: the period is not known
SummarizeInvalidPeriod ==
    /\ pc = "call" /\ fn = "summarize"
    /\ log_exists
    /\ get_time_range(period, now_eastern)[1] = None
    /\ start_time' = get_time_range(period, now_eastern)[1]
    /\ end_time' = get_time_range(period, now_eastern)[2]
    /\ out' = out \o InvalidPeriodLines(period)
    /\ pc' = "done"
    /\ UNCHANGED <<fn, period, show_tags, log_exists, file, now_eastern,
                   entries, i, pending_starts, sessions,
                   by_category_project, total_seconds, sorted_items, tag_durations>>

\* summarize, lines 102-123: the window, the entries read, the empty pairing state
SummarizeRead ==
    /\ pc = "call" /\ fn = "summarize"
    /\ log_exists
    /\ get_time_range(period, now_eastern)[1] # None
    /\ start_time' = get_time_range(period, now_eastern)[1]
    /\ end_time' = get_time_range(period, now_eastern)[2]
    /\ entries' = ReadEntries(file)
    /\ sessions' = <<>>
    /\ pending_starts' = <<>>
    /\ i' = 1
    /\ pc' = "pair"
    /\ UNCHANGED <<fn, period, show_tags, log_exists, file, now_eastern,
                   by_category_project, total_seconds, sorted_items, tag_durations, out>>

\* summarize, lines 125-150: one iteration of the loop over the entries
PairStep ==
    /\ pc = "pair"
    /\ i <= Len(entries)
    /\ LET r == PairEntry(pending_starts, sessions, entries[i], i,
                          start_time, end_time)
       IN  /\ pending_starts' = r.pending
           /\ sessions' = r.sessions
    /\ i' = i + 1
    /\ UNCHANGED <<fn, period, show_tags, log_exists, file, now_eastern, pc,
                   start_time, end_time, entries,
                   by_category_project, total_seconds, sorted_items, tag_durations, out>>

\* period_name, computed on line 153, printed for period
NoSessionsLinesCapitalized(p) ==
    <<"No tracked time found for this " \o Capitalize(p) \o ".">>

\* the line of line 154
NoSessionsLines(p) == <<"No tracked time found for this " \o p \o ".">>

\* summarize, lines 152-155: no session
SummarizeEmpty ==
    /\ pc = "pair"
    /\ i > Len(entries)
    /\ sessions = <<>>
    /\ out' = out \o NoSessionsLines(period)
    /\ pc' = "done"
    /\ UNCHANGED <<fn, period, show_tags, log_exists, file, now_eastern,
                   start_time, end_time, entries, i, pending_starts, sessions,
                   by_category_project, total_seconds, sorted_items, tag_durations>>

\* summarize, lines 157-217: aggregate, sort, print
SummarizeReport ==
    /\ pc = "pair"
    /\ i > Len(entries)
    /\ sessions # <<>>
    /\ by_category_project' = GroupByKey(sessions)
    /\ total_seconds' = TotalOf(sessions)
    /\ sorted_items' = SortDesc(by_category_project')
    /\ tag_durations' = AllTagDurations(sorted_items', sessions, show_tags)
    /\ \E parse_time_str \in ParseTimeStrs :
          out' = out \o ReportLines(period, total_seconds', sorted_items',
                                    sessions, show_tags, parse_time_str)
    /\ pc' = "done"
    /\ UNCHANGED <<fn, period, show_tags, log_exists, file, now_eastern,
                   start_time, end_time, entries, i, pending_starts, sessions>>

\* list_tags, lines 222-224: no log file
ListTagsNoLog ==
    /\ pc = "call" /\ fn = "list_tags"
    /\ ~log_exists
    /\ out' = Append(out, "No log file found.")
    /\ pc' = "done"
    /\ UNCHANGED <<fn, period, show_tags, log_exists, file, now_eastern,
                   start_time, end_time, entries, i, pending_starts, sessions,
                   by_category_project, total_seconds, sorted_items, tag_durations>>

\* list_tags, lines 226-262
ListTags ==
    /\ pc = "call" /\ fn = "list_tags"
    /\ log_exists
    /\ entries' = ReadEntries(file)
    /\ out' = out \o ListTagsLines(TagsByProject(entries'))
    /\ pc' = "done"
    /\ UNCHANGED <<fn, period, show_tags, log_exists, file, now_eastern,
                   start_time, end_time, i, pending_starts, sessions,
                   by_category_project, total_seconds, sorted_items, tag_durations>>

Next ==
    \/ SummarizeNoLog
    \/ SummarizeInvalidPeriod
    \/ SummarizeRead
    \/ PairStep
    \/ SummarizeEmpty
    \/ SummarizeReport
    \/ ListTagsNoLog
    \/ ListTags

-----------------------------------------------------------------------------
(* The logs, the clocks and the arguments the commands are run on          *)

K1 == <<"work", "p1">>
K2 == <<"home", "p1">>
K3 == <<"work", "p2">>

\* a well-formed line
Line(utc, action, key, tags) == <<utc, action, key[1], key[2]>> \o tags

\* the instant whose Eastern wall clock reads w
ToUtc(w) == CHOOSE u \in {w + 4 * 3600, w + 5 * 3600} : AsEastern(u) = w

SeqsUpTo(S, n) == UNION { [1 .. k -> S] : k \in 0 .. n }

\* Wednesday 2024-01-03 15:30:00
NowJan == Midnight(2024, 1, 3) + 15 * 3600 + 1800
\* Tuesday 2024-12-31 23:59:59
NowDec == Midnight(2024, 12, 31) + 23 * 3600 + 59 * 60 + 59
\* Sunday 2024-11-03 12:00:00, the day the clocks go back
NowFallBack == Midnight(2024, 11, 3) + 12 * 3600

Start(p, now) == get_time_range(p, now)[1]
End(p, now) == get_time_range(p, now)[2]

\* the state before the command runs
Before(f, p, tagged, exists, lines, now) ==
    /\ fn = f
    /\ period = p
    /\ show_tags = tagged
    /\ log_exists = exists
    /\ file = lines
    /\ now_eastern = now
    /\ pc = "call"
    /\ start_time = None
    /\ end_time = None
    /\ entries = <<>>
    /\ i = 0
    /\ pending_starts = <<>>
    /\ sessions = <<>>
    /\ by_category_project = <<>>
    /\ total_seconds = 0
    /\ sorted_items = <<>>
    /\ tag_durations = <<>>
    /\ out = <<>>

\* a few lines around the start of today
SmallLines ==
    LET s == Start("day", NowJan)
    IN  { Line(ToUtc(s), "start", K1, <<"urgent", "client-x">>),
          Line(ToUtc(s + 600), "stop", K1, <<"late">>),
          Line(ToUtc(s + 600), "start", K2, <<>>),
          Line(ToUtc(s + 1200), "stop", K2, <<>>) }

\* runs every specification holds: a missing log, an unknown period, the tag
\* listing, and short logs with and without the tag breakdown
InitCommon ==
    \/ \E f \in {"summarize", "list_tags"}, p \in {"day", "decade"} :
          Before(f, p, FALSE, FALSE, <<>>, NowJan)
    \/ \E p \in {"decade", "Day", ""}, lines \in SeqsUpTo(SmallLines, 1) :
          Before("summarize", p, FALSE, TRUE, lines, NowJan)
    \/ \E lines \in SeqsUpTo(SmallLines, 2) :
          Before("list_tags", "day", FALSE, TRUE, lines, NowJan)
    \/ \E tagged \in BOOLEAN, lines \in SeqsUpTo(SmallLines, 2) :
          Before("summarize", "day", tagged, TRUE, lines, NowJan)

\* lines at and around both ends of the window [s, e)
GeneralLines(s, e) ==
    { Line(ToUtc(t), a, K1, <<>>) : t \in {s - 1, s, e - 1, e}, a \in {"start", "stop"} }
    \cup { Line(ToUtc(s), "start", K2, <<>>),
           Line(ToUtc(e - 1), "stop", K2, <<>>),
           Line(ToUtc(s), "pause", K1, <<>>),
           <<ToUtc(s), "start", "work">>,
           <<Unparsable, "stop", "work", "p1">> }

InitGeneral ==
    \E p \in {"day", "week", "month", "year"}, now \in {NowJan, NowDec} :
        \E lines \in SeqsUpTo(GeneralLines(Start(p, now), End(p, now)), MaxLen) :
            Before("summarize", p, FALSE, TRUE, lines, now)

\* starts and stops of one key at three instants of the window, a start
\* before the window, and a start and a stop of a second key
PairLines(s) ==
    { Line(ToUtc(s + t), a, K1, <<>>) : t \in {0, 600, 1200}, a \in {"start", "stop"} }
    \cup { Line(ToUtc(s - 600), "start", K1, <<>>),
           Line(ToUtc(s), "start", K2, <<>>),
           Line(ToUtc(s + 600), "stop", K2, <<>>) }

\* 01:30 EDT and, forty minutes later, 01:10 EST
FallBackLines ==
    LET s == Start("day", NowFallBack)
    IN  { Line(u, a, K1, <<>>) :
            u \in {s + 4 * 3600 + 5400, s + 4 * 3600 + 7800}, a \in {"start", "stop"} }

InitPair ==
    \/ \E lines \in SeqsUpTo(PairLines(Start("day", NowJan)), MaxPairLen) :
          Before("summarize", "day", FALSE, TRUE, lines, NowJan)
    \/ \E lines \in SeqsUpTo(FallBackLines, MaxPairLen) :
          Before("summarize", "day", FALSE, TRUE, lines, NowFallBack)

\* a start and its stop, d seconds later, in the j-th two hours of the window
Block(s, j, key, d) ==
    << Line(ToUtc(s + 7200 * j), "start", key, <<>>),
       Line(ToUtc(s + 7200 * j + d), "stop", key, <<>>) >>

RECURSIVE Blocks(_, _)
Blocks(s, choice) ==
    IF choice = <<>> THEN <<>>
    ELSE Blocks(s, SubSeq(choice, 1, Len(choice) - 1))
           \o Block(s, Len(choice), choice[Len(choice)][1], choice[Len(choice)][2])

InitReport ==
    \E choice \in SeqsUpTo({K1, K2, K3} \X {600, 3599, 5400}, MaxBlocks) :
        Before("summarize", "week", FALSE, TRUE,
               Blocks(Start("week", NowJan), choice), NowJan)

\* tagged events of three keys, last June, today and next year: a tag seen
\* on two starts, a tag twice on one start, tags only on stops, a start
\* without tags
ListLines ==
    LET today == Start("day", NowJan)
        june == Midnight(2023, 6, 1) + 9 * 3600
        later == Midnight(2025, 2, 1)
    IN  { Line(ToUtc(june), "start", K1, <<"urgent", "client-x">>),
          Line(ToUtc(today + 600), "start", K1, <<"urgent">>),
          Line(ToUtc(today + 1200), "stop", K1, <<"late">>),
          Line(ToUtc(later), "start", K2, <<"deep", "deep">>),
          Line(ToUtc(later + 600), "stop", K2, <<"billable">>),
          Line(ToUtc(today), "start", K3, <<>>),
          Line(ToUtc(june + 600), "stop", K3, <<"billable">>),
          Line(ToUtc(later), "start", K3, <<"billable">>) }

InitList ==
    \E lines \in SeqsUpTo(ListLines, MaxListLen) :
        Before("list_tags", "day", FALSE, TRUE, lines, NowJan)

\* durations around the turns of the minute, of the hour and of the day, and
\* the negative ones of a stop stamped before its start
SecondsToFormat ==
    { 3600 * h + 60 * m + r :
        h \in {-1, 0, 1, 9, 10, MaxHours}, m \in {0, 1, 9, 10, 30, 59}, r \in {0, 1, 59} }

\* one session of each duration, alone or after a session of ten minutes
InitFormat ==
    \E d \in SecondsToFormat, first \in {<<>>, <<<<K2, 600>>>>} :
        Before("summarize", "week", FALSE, TRUE,
               Blocks(Start("week", NowJan), first \o <<<<K1, d>>>>), NowJan)

\* today's events of two keys, some with an action that is neither start nor
\* stop: another word, or start and stop in another case
ActionLines ==
    LET s == Start("day", NowJan)
    IN  { Line(ToUtc(s), "start", K1, <<"urgent">>),
          Line(ToUtc(s + 600), "stop", K1, <<>>),
          Line(ToUtc(s + 300), "pause", K1, <<"deep">>),
          Line(ToUtc(s + 300), "Start", K1, <<"billable">>),
          Line(ToUtc(s + 900), "STOP", K1, <<>>),
          Line(ToUtc(s + 900), "stopped", K1, <<"late">>),
          Line(ToUtc(s), "start", K2, <<"deep">>),
          Line(ToUtc(s + 600), "Stop", K2, <<"urgent">>) }

InitActions ==
    \E f \in {"summarize", "list_tags"}, lines \in SeqsUpTo(ActionLines, MaxActionsLen) :
        Before(f, "day", FALSE, TRUE, lines, NowJan)

\* a tagged start and its stop, which carries tags of its own
TaggedBlock(s, j, key, d, tags) ==
    << Line(ToUtc(s + 7200 * j), "start", key, tags),
       Line(ToUtc(s + 7200 * j + d), "stop", key, <<"late", "deep">>) >>

RECURSIVE TaggedBlocks(_, _)
TaggedBlocks(s, choice) ==
    IF choice = <<>> THEN <<>>
    ELSE LET last == choice[Len(choice)]
         IN  TaggedBlocks(s, SubSeq(choice, 1, Len(choice) - 1))
               \o TaggedBlock(s, Len(choice), last[1], last[2], last[3])

\* the start tags of the blocks: two orders of one pair of tags, one of them
\* alone, the same one twice, and none
TagChoices ==
    { <<"urgent", "client-x">>, <<"client-x", "urgent">>, <<"urgent">>,
      <<"urgent", "urgent">>, <<>> }

\* starts and stops of one key in any order, each with tags of its own
LooseTagLines ==
    LET s == Start("day", NowJan)
    IN  { Line(ToUtc(s), "start", K1, <<"urgent">>),
          Line(ToUtc(s + 60), "start", K1, <<"deep", "billable">>),
          Line(ToUtc(s + 600), "stop", K1, <<"late">>),
          Line(ToUtc(s + 3600), "stop", K1, <<>>) }

InitTags ==
    \/ \E choice \in SeqsUpTo(({K1} \X {600, 3599} \X TagChoices)
                                 \cup ({K3} \X {600, 3599} \X {<<"urgent">>, <<>>}),
                               MaxTagBlocks) :
          Before("summarize", "week", TRUE, TRUE,
                 TaggedBlocks(Start("week", NowJan), choice), NowJan)
    \/ \E lines \in SeqsUpTo(LooseTagLines, MaxTagLen) :
          Before("summarize", "day", TRUE, TRUE, lines, NowJan)

\* the clocks of the week runs: every day from Monday 2024-12-30 on, over
\* the turn of the year, and from Monday 2024-10-28 on, the week the clocks
\* go back; at the first second, at noon and at the last second of the day
WeekClocks ==
    { monday + Day * d + t :
        monday \in {Midnight(2024, 12, 30), Midnight(2024, 10, 28)},
        d \in 0 .. 7 * MaxWeeks - 1,
        t \in {0, 12 * 3600, Day - 1} }

\* a start at the first second of the week of the clock and a stop at its last
WeekLines(now) ==
    { Line(ToUtc(Start("week", now)), "start", K1, <<>>),
      Line(ToUtc(End("week", now) - 1), "stop", K1, <<>>) }

InitWeek ==
    \E now \in WeekClocks :
        \E lines \in SeqsUpTo(WeekLines(now), 2) :
            Before("summarize", "week", FALSE, TRUE, lines, now)

Init == InitCommon \/ InitGeneral

Spec == Init /\ [][Next]_vars

SpecPair == (InitCommon \/ InitPair) /\ [][Next]_vars

SpecReport == (InitCommon \/ InitReport) /\ [][Next]_vars

SpecList == (InitCommon \/ InitList) /\ [][Next]_vars

SpecFormat == (InitCommon \/ InitFormat) /\ [][Next]_vars

SpecActions == (InitCommon \/ InitActions) /\ [][Next]_vars

SpecTags == (InitCommon \/ InitTags) /\ [][Next]_vars

SpecWeek == (InitCommon \/ InitWeek) /\ [][Next]_vars

-----------------------------------------------------------------------------
(* Properties                                                              *)

\* the pairing loop is about to process entries[i]
Stepping == pc = "pair" /\ i <= Len(entries)

\* the entry lies in the window of the run
InWin(entry) == start_time <= entry.timestamp /\ entry.timestamp < end_time

\* summarize has got past its checks of the log and of the period
Pairing == fn = "summarize" /\ pc \in {"pair", "done"} /\ start_time # None

\* the number of entries the pairing loop has gone through
Processed == IF pc = "pair" THEN i - 1 ELSE Len(entries)

\* the keys of the log
KeysOfLog == { KeyOf(entries[k]) : k \in 1 .. Len(entries) }

\* the places, among the first n entries, of the in-window events of a key
EventsOf(key, action, n) ==
    { k \in 1 .. n : /\ KeyOf(entries[k]) = key
                     /\ entries[k].action = action
                     /\ InWin(entries[k]) }

\* the places of all events of a key in the log, in the window or not
AllEventsOf(key, action) ==
    { k \in 1 .. Len(entries) : KeyOf(entries[k]) = key /\ entries[k].action = action }

\* the n-th smallest number of a set
NthOf(S, n) == CHOOSE x \in S : Cardinality({ y \in S : y < x }) = n - 1

\* the sessions of a key, in the order emitted
SessionsOfKey(key) == SelectSeq(sessions, LAMBDA x : <<x.category, x.project>> = key)

\* a session pairs the start at place a with the stop at place b
Paired(a, b) == \E n \in 1 .. Len(sessions) : sessions[n].si = a /\ sessions[n].ei = b

\* C1: a stop inside the window whose key has a non-empty pending queue emits
\* one session built from the oldest entry of that queue (the one appended
\* first), removes exactly that entry, and leaves the rest of the queue, in
\* order, and every other queue as they were.
C1_StopTakesOldest ==
    [][ ( /\ Stepping
          /\ InWin(entries[i])
          /\ entries[i].action = "stop"
          /\ KeyOf(entries[i]) \in DOMAIN pending_starts
          /\ pending_starts[KeyOf(entries[i])] # <<>> )
        => LET entry == entries[i]
               key == KeyOf(entry)
               q == pending_starts[key]
               oldest == q[1]
               made == sessions'[Len(sessions')]
           IN  /\ \A j \in 1 .. Len(q) : oldest[3] <= q[j][3]
               /\ Len(sessions') = Len(sessions) + 1
               /\ SubSeq(sessions', 1, Len(sessions)) = sessions
               /\ made.start = oldest[1]
               /\ made.tags = oldest[2]
               /\ made.si = oldest[3]
               /\ made.end = entry.timestamp
               /\ made.ei = i
               /\ <<made.category, made.project>> = key
               /\ DOMAIN pending_starts' = DOMAIN pending_starts
               /\ pending_starts'[key] = SubSeq(q, 2, Len(q))
               /\ \A k \in DOMAIN pending_starts \ {key} :
                     pending_starts'[k] = pending_starts[k]
      ]_vars

\* C1 witness: a stop has just closed the older of two pending starts of its
\* key, and the younger one is still pending.
C1_Witness ==
    /\ pc = "pair"
    /\ sessions # <<>>
    /\ LET made == sessions[Len(sessions)]
           key == <<made.category, made.project>>
       IN  /\ made.ei = i - 1
           /\ key \in DOMAIN pending_starts
           /\ pending_starts[key] # <<>>
           /\ made.si < pending_starts[key][1][3]
           /\ pending_starts[key][1][3] < made.ei

\* C2, as amended: the n-th session of a key pairs the n-th in-window start
\* of that key with an in-window stop of that key, later in the log than the
\* start, and the stops of a key's sessions come in log order, so the sessions
\* of one key never cross; and when the in-window events of a key are exactly
\* two starts S1, S2 and two stops T1, T2 with S1 before T1 and S2 before T2
\* in the log, the sessions of the key are (S1, T1) and (S2, T2).
C2_FifoPairing ==
    Pairing =>
      \A key \in KeysOfLog :
        LET ss == SessionsOfKey(key)
            starts == EventsOf(key, "start", Processed)
            stops == EventsOf(key, "stop", Processed)
        IN  /\ Len(ss) <= Cardinality(starts)
            /\ \A n \in 1 .. Len(ss) :
                  /\ ss[n].si = NthOf(starts, n)
                  /\ ss[n].ei \in stops
                  /\ ss[n].si < ss[n].ei
            /\ \A m, n \in 1 .. Len(ss) : m < n => ss[m].ei < ss[n].ei
            /\ ( /\ Processed = Len(entries)
                 /\ Cardinality(starts) = 2
                 /\ Cardinality(stops) = 2
                 /\ NthOf(starts, 1) < NthOf(stops, 1)
                 /\ NthOf(starts, 2) < NthOf(stops, 2) )
               => /\ Len(ss) = 2
                  /\ ss[1].si = NthOf(starts, 1) /\ ss[1].ei = NthOf(stops, 1)
                  /\ ss[2].si = NthOf(starts, 2) /\ ss[2].ei = NthOf(stops, 2)

\* C2 witness: two starts and then two stops of one key, all in the window,
\* have given two sessions.
C2_Witness ==
    /\ Pairing /\ pc = "done"
    /\ Len(sessions) = 2
    /\ sessions[1].si < sessions[2].si
    /\ sessions[2].si < sessions[1].ei
    /\ sessions[1].ei < sessions[2].ei
    /\ sessions[1].duration = 600 /\ sessions[2].duration = 600

\* C2 as stated: whenever the log holds, for one key, just two starts S1
\* before S2 and two stops T1 before T2, summarize pairs S1 with T1 and S2
\* with T2 and emits no crossed session, whatever the window and wherever the
\* stops stand among the starts.
C2_AsStated ==
    (Pairing /\ pc = "done") =>
      \A key \in KeysOfLog :
        LET starts == AllEventsOf(key, "start")
            stops == AllEventsOf(key, "stop")
        IN  (Cardinality(starts) = 2 /\ Cardinality(stops) = 2)
            => /\ Paired(NthOf(starts, 1), NthOf(stops, 1))
               /\ Paired(NthOf(starts, 2), NthOf(stops, 2))
               /\ ~Paired(NthOf(starts, 1), NthOf(stops, 2))
               /\ ~Paired(NthOf(starts, 2), NthOf(stops, 1))

\* C3: a start with no later stop of its key inside the window is in no
\* session, a start still pending is in no session, the end of the loop emits
\* nothing; and a stop inside the window whose key has no pending start
\* leaves the pending queues and the sessions as they were.
C3_UnmatchedDropped ==
    /\ [] ( Pairing =>
              /\ \A a \in 1 .. Processed :
                    ( /\ entries[a].action = "start"
                      /\ ~\E b \in EventsOf(KeyOf(entries[a]), "stop", Processed) : a < b )
                    => ~\E n \in 1 .. Len(sessions) : sessions[n].si = a
              /\ \A key \in DOMAIN pending_starts :
                    \A j \in 1 .. Len(pending_starts[key]) :
                        ~\E n \in 1 .. Len(sessions) :
                            sessions[n].si = pending_starts[key][j][3] )
    /\ [][ ( /\ Stepping
             /\ InWin(entries[i])
             /\ entries[i].action = "stop"
             /\ ( \/ KeyOf(entries[i]) \notin DOMAIN pending_starts
                  \/ pending_starts[KeyOf(entries[i])] = <<>> ) )
           => /\ pending_starts' = pending_starts
              /\ sessions' = sessions ]_vars
    /\ [][ (pc = "pair" /\ i > Len(entries))
           => /\ pending_starts' = pending_starts
              /\ sessions' = sessions ]_vars

\* C3 witness: the run is over, a stop inside the window found no pending
\* start, a start inside the window is still pending, and no session exists.
C3_Witness ==
    /\ Pairing /\ pc = "done"
    /\ sessions = <<>>
    /\ \E key \in DOMAIN pending_starts : pending_starts[key] # <<>>
    /\ \E a \in 1 .. Len(entries) : InWin(entries[a]) /\ entries[a].action = "stop"

\* C4: an entry changes the pairing state only if start_time <= timestamp <
\* end_time: outside it leaves the pending queues and the sessions as they
\* were, inside a start is appended to its key's queue and a stop with a
\* pending start emits a session.
C4_HalfOpenWindow ==
    [][ Stepping =>
          LET entry == entries[i]
              key == KeyOf(entry)
              inside == start_time <= entry.timestamp /\ entry.timestamp < end_time
              had == IF key \in DOMAIN pending_starts THEN pending_starts[key] ELSE <<>>
          IN  /\ ~inside => /\ pending_starts' = pending_starts
                            /\ sessions' = sessions
              /\ (inside /\ entry.action = "start")
                    => /\ key \in DOMAIN pending_starts'
                       /\ pending_starts'[key] = Append(had, <<entry.timestamp, entry.tags, i>>)
              /\ (inside /\ entry.action = "stop" /\ had # <<>>)
                    => /\ Len(sessions') = Len(sessions) + 1
                       /\ sessions'[Len(sessions')].ei = i
      ]_vars

\* C4 witness: a start exactly at the window's start was taken and has given
\* a session, and an entry exactly at the window's end has been passed over.
C4_Witness ==
    /\ Pairing
    /\ \E n \in 1 .. Len(sessions) : sessions[n].start = start_time
    /\ \E a \in 1 .. Processed :
          /\ entries[a].timestamp = end_time
          /\ ~\E n \in 1 .. Len(sessions) : sessions[n].si = a \/ sessions[n].ei = a
          /\ \A key \in DOMAIN pending_starts :
                \A j \in 1 .. Len(pending_starts[key]) : pending_starts[key][j][3] # a

\* the wall-clock timestamps of the first n entries never go back
Monotonic(n) ==
    \A a, b \in 1 .. n : a < b => entries[a].timestamp <= entries[b].timestamp

\* C5, as amended: every session has start and end the wall-clock timestamps
\* of its start and stop, duration = end - start, zero exactly when the two
\* are the same instant; end >= start and duration >= 0 when the wall-clock
\* timestamps of the log never go back in file order.
C5_DurationIsDifference ==
    Pairing =>
      \A n \in 1 .. Len(sessions) :
        LET x == sessions[n]
        IN  /\ x.start = entries[x.si].timestamp
            /\ x.end = entries[x.ei].timestamp
            /\ x.duration = x.end - x.start
            /\ (x.duration = 0) <=> (entries[x.si].timestamp = entries[x.ei].timestamp)
            /\ Monotonic(Processed) => (x.end >= x.start /\ x.duration >= 0)

\* C5 witness: a log whose timestamps never go back has given a session of
\* positive duration and a session of duration zero.
C5_Witness ==
    /\ Pairing /\ pc = "done"
    /\ Monotonic(Len(entries))
    /\ \E n \in 1 .. Len(sessions) : sessions[n].duration > 0
    /\ \E n \in 1 .. Len(sessions) : sessions[n].duration = 0

\* C5 as stated: every session has end >= start and a non-negative duration,
\* whatever the order of the timestamps in the log.
C5_AsStated ==
    \A n \in 1 .. Len(sessions) :
        sessions[n].end >= sessions[n].start /\ sessions[n].duration >= 0

\* the sum of the durations of the sessions at the places of S
RECURSIVE SumOfDurations(_)
SumOfDurations(S) ==
    IF S = {} THEN 0
    ELSE LET n == CHOOSE x \in S : TRUE
         IN  sessions[n].duration + SumOfDurations(S \ {n})

\* the sum of the totals of the buckets from the k-th on
RECURSIVE SumOfBuckets(_)
SumOfBuckets(k) ==
    IF k > Len(by_category_project) THEN 0
    ELSE by_category_project[k][2] + SumOfBuckets(k + 1)

\* the places of the sessions of a key
PlacesOfKey(key) ==
    { n \in 1 .. Len(sessions) : <<sessions[n].category, sessions[n].project>> = key }

\* summarize has printed a report
Reported == Pairing /\ pc = "done" /\ sessions # <<>>

\* C6: after aggregation there is one bucket for each key that has a session,
\* its total is the sum of the durations of exactly the sessions of that key,
\* and the grand total, which the report prints, is the sum of the bucket
\* totals and of all durations.
C6_TotalsAddUp ==
    Reported =>
      /\ { by_category_project[k][1] : k \in 1 .. Len(by_category_project) }
            = { <<sessions[n].category, sessions[n].project>> : n \in 1 .. Len(sessions) }
      /\ \A a, b \in 1 .. Len(by_category_project) :
            by_category_project[a][1] = by_category_project[b][1] => a = b
      /\ \A k \in 1 .. Len(by_category_project) :
            by_category_project[k][2] = SumOfDurations(PlacesOfKey(by_category_project[k][1]))
      /\ total_seconds = SumOfBuckets(1)
      /\ total_seconds = SumOfDurations(1 .. Len(sessions))
      /\ out[3] = "Total: " \o format_duration(SumOfBuckets(1))

\* C6 witness: a report over at least two buckets, one of them holding two
\* sessions.
C6_Witness ==
    /\ Reported
    /\ Len(by_category_project) >= 2
    /\ \E k \in 1 .. Len(by_category_project) :
          Cardinality(PlacesOfKey(by_category_project[k][1])) >= 2

\* the period words get_time_range knows
ValidPeriods == {"day", "week", "month", "year"}

\* C7: with the log present, a valid period and no session in the window,
\* summarize prints the one line "No tracked time found for this <period>."
\* and nothing else, and makes no bucket.
C7_NoSessionsOneLine ==
    ( /\ fn = "summarize" /\ pc = "done"
      /\ log_exists
      /\ period \in ValidPeriods
      /\ sessions = <<>> )
    => /\ out = <<"No tracked time found for this " \o period \o ".">>
       /\ by_category_project = <<>>
       /\ sorted_items = <<>>

\* C7 witness: a run over a log with an unmatched start in the window has
\* ended with no session.
C7_Witness ==
    /\ fn = "summarize" /\ pc = "done"
    /\ period = "week"
    /\ sessions = <<>>
    /\ \E key \in DOMAIN pending_starts : pending_starts[key] # <<>>

\* C8, as amended: with the log present, a period outside day, week, month,
\* year gives the two lines naming it and listing the valid periods, no
\* window (no default period), no entry read, no session and no report.
C8_InvalidPeriodReported ==
    ( /\ fn = "summarize" /\ pc = "done"
      /\ log_exists
      /\ period \notin ValidPeriods )
    => /\ out = <<"Invalid period: " \o period, "Valid periods: day, week, month, year">>
       /\ start_time = None /\ end_time = None
       /\ entries = <<>>
       /\ sessions = <<>>
       /\ sorted_items = <<>>

\* C8 witness: summarize has ended on an unknown period over a log that is
\* not empty.
C8_Witness ==
    /\ fn = "summarize" /\ pc = "done"
    /\ log_exists /\ file # <<>>
    /\ period = "decade"
    /\ Len(out) = 2

\* C8 as stated: the two lines are printed for every period outside day,
\* week, month, year in every state of the log file, a missing one included.
C8_AsStated ==
    ( /\ fn = "summarize" /\ pc = "done"
      /\ period \notin ValidPeriods )
    => out = <<"Invalid period: " \o period, "Valid periods: day, week, month, year">>

\* C9: with the log missing, summarize and list_tags both end having printed
\* the one line "No log file found." and nothing else, with no entry parsed,
\* no window, no session and no bucket.
C9_MissingLogOnly ==
    (pc = "done" /\ ~log_exists)
    => /\ out = <<"No log file found.">>
       /\ entries = <<>>
       /\ start_time = None
       /\ sessions = <<>>
       /\ by_category_project = <<>>

\* C9 witness: summarize has ended over a missing log.
C9_Witness ==
    /\ fn = "summarize" /\ pc = "done"
    /\ ~log_exists
    /\ out # <<>>

\* the place of a key in by_category_project
PlaceOfBucket(key) ==
    CHOOSE k \in 1 .. Len(by_category_project) : by_category_project[k][1] = key

\* the place of the first session of a key
FirstSessionOf(key) ==
    CHOOSE n \in PlacesOfKey(key) : \A m \in PlacesOfKey(key) : n <= m

\* the line the report prints for a bucket
ProjectLine(item) == "    " \o item[1][2] \o ": " \o format_duration(item[2])

\* C10: the buckets stand in by_category_project in the order in which their
\* keys first received a session; sorted_items holds the same buckets by
\* total descending, buckets of equal total in their by_category_project
\* order; and the report prints the project lines in the order of
\* sorted_items.
C10_SortedStable ==
    Reported =>
      /\ \A a, b \in 1 .. Len(by_category_project) :
            a < b => FirstSessionOf(by_category_project[a][1])
                       < FirstSessionOf(by_category_project[b][1])
      /\ Len(sorted_items) = Len(by_category_project)
      /\ { sorted_items[k] : k \in 1 .. Len(sorted_items) }
            = { by_category_project[k] : k \in 1 .. Len(by_category_project) }
      /\ \A a, b \in 1 .. Len(sorted_items) :
            a < b => /\ sorted_items[a][2] >= sorted_items[b][2]
                     /\ sorted_items[a][2] = sorted_items[b][2]
                          => PlaceOfBucket(sorted_items[a][1])
                               < PlaceOfBucket(sorted_items[b][1])
      /\ SelectSeq(out, LAMBDA l :
                     \E k \in 1 .. Len(sorted_items) : l = ProjectLine(sorted_items[k]))
            = [k \in 1 .. Len(sorted_items) |-> ProjectLine(sorted_items[k])]

\* C10 witness: a report of three buckets, two of equal total printed in the
\* order they arose, against the order of their names, and one of another
\* total.
C10_Witness ==
    /\ Reported
    /\ Len(sorted_items) = 3
    /\ \E a, b \in 1 .. 3 :
          /\ a < b
          /\ sorted_items[a][2] = sorted_items[b][2]
          /\ StrLess(sorted_items[b][1][1], sorted_items[a][1][1])
    /\ \E a, b \in 1 .. 3 : sorted_items[a][2] > sorted_items[b][2]

\* the header line of a category
CategoryHeader(category) == "  " \o category \o "/"

\* the breakdown of the report: what is printed between "Breakdown:" and the
\* blank line before the parse time
BreakdownOfReport == SubSeq(out, 6, Len(out) - 2)

\* the header and project lines of the breakdown, in the order printed
HeadersAndProjects ==
    SelectSeq(BreakdownOfReport,
              LAMBDA l : \E k \in 1 .. Len(sorted_items) :
                            \/ l = CategoryHeader(sorted_items[k][1][1])
                            \/ l = ProjectLine(sorted_items[k]))

\* the places, in the duration-sorted order, where a run of one category begins
RunStarts ==
    { k \in 1 .. Len(sorted_items) :
        k = 1 \/ sorted_items[k][1][1] # sorted_items[k - 1][1][1] }

\* the number of times a line is printed in the breakdown
TimesPrinted(l) ==
    Cardinality({ n \in 1 .. Len(BreakdownOfReport) : BreakdownOfReport[n] = l })

\* C11: in the breakdown of a report a category header is printed exactly
\* before the project lines of the buckets whose category differs from that of
\* the bucket before them in the duration-sorted order, and before the first
\* bucket; so there is one header for each run of adjacent buckets of one
\* category, and a category whose buckets are not adjacent has several.
C11_HeaderPerRun ==
    Reported =>
        LET place(k) == k + Cardinality({ r \in RunStarts : r <= k })
        IN  /\ Len(HeadersAndProjects) = Len(sorted_items) + Cardinality(RunStarts)
            /\ \A k \in 1 .. Len(sorted_items) :
                  /\ HeadersAndProjects[place(k)] = ProjectLine(sorted_items[k])
                  /\ k \in RunStarts =>
                        HeadersAndProjects[place(k) - 1]
                          = CategoryHeader(sorted_items[k][1][1])
            /\ \A k \in 1 .. Len(sorted_items) :
                  TimesPrinted(CategoryHeader(sorted_items[k][1][1]))
                    = Cardinality({ r \in RunStarts :
                                      sorted_items[r][1][1] = sorted_items[k][1][1] })

\* C11 witness: a report whose sorted buckets have the categories work, home,
\* work, and which prints the header of work twice.
C11_Witness ==
    /\ Reported
    /\ Len(sorted_items) = 3
    /\ sorted_items[1][1][1] = "work"
    /\ sorted_items[2][1][1] = "home"
    /\ sorted_items[3][1][1] = "work"
    /\ TimesPrinted(CategoryHeader("work")) = 2
    /\ TimesPrinted(CategoryHeader("home")) = 1

\* list_tags has read the log and printed its listing
Listed == fn = "list_tags" /\ pc = "done" /\ log_exists

\* the place of the last line of S printed before place n, 0 when there is none
LastBefore(n, S) ==
    LET places == { m \in 1 .. n - 1 : out[m] \in S }
    IN  IF places = {} THEN 0
        ELSE CHOOSE m \in places : \A k \in places : k <= m

\* the categories, projects and tags of the entries read
CategoriesRead == { entries[k].category : k \in 1 .. Len(entries) }
ProjectsRead == { entries[k].project : k \in 1 .. Len(entries) }
TagsRead == UNION { { entries[k].tags[j] : j \in 1 .. Len(entries[k].tags) } :
                    k \in 1 .. Len(entries) }

\* the places where the listing prints tag under project of category
PlacesListed(category, project, tag) ==
    LET categoryLines == { "  " \o c \o "/" : c \in CategoriesRead }
        projectLines == { "    " \o p \o ":" : p \in ProjectsRead }
    IN  { n \in 1 .. Len(out) :
            /\ out[n] = "      - " \o tag
            /\ LastBefore(n, projectLines) > 0
            /\ out[LastBefore(n, projectLines)] = "    " \o project \o ":"
            /\ LastBefore(n, categoryLines) > 0
            /\ out[LastBefore(n, categoryLines)] = "  " \o category \o "/"
            /\ LastBefore(n, categoryLines) < LastBefore(n, projectLines) }

\* some start event of the key, anywhere in the log, carries the tag
OnSomeStart(category, project, tag) ==
    \E k \in 1 .. Len(entries) :
        /\ entries[k].action = "start"
        /\ entries[k].category = category
        /\ entries[k].project = project
        /\ \E j \in 1 .. Len(entries[k].tags) : entries[k].tags[j] = tag

\* C12: list_tags takes no window: over the whole log, whatever the times of
\* the events, it prints under each (category, project) each tag carried by at
\* least one start event of that key exactly once, and no other tag; a tag
\* carried only by stop events is not printed.
C12_ListTagsWholeLog ==
    Listed =>
        /\ start_time = None /\ end_time = None
        /\ \A c \in CategoriesRead, p \in ProjectsRead, t \in TagsRead :
              Cardinality(PlacesListed(c, p, t))
                = IF OnSomeStart(c, p, t) THEN 1 ELSE 0
        /\ Cardinality({ n \in 1 .. Len(out) :
                           \E t \in TagsRead : out[n] = "      - " \o t })
             = Cardinality({ x \in CategoriesRead \X ProjectsRead \X TagsRead :
                               OnSomeStart(x[1], x[2], x[3]) })

\* C12 witness: the listing prints urgent once under work/p1 although two
\* starts carry it, one of them from last June; late, carried by a stop only,
\* is not printed.
C12_Witness ==
    /\ Listed
    /\ Len(entries) = 3
    /\ \E k \in 1 .. 3 : /\ entries[k].action = "start"
                         /\ entries[k].timestamp < Start("day", now_eastern)
                         /\ entries[k].tags = <<"urgent", "client-x">>
    /\ \E k \in 1 .. 3 : entries[k].action = "start" /\ entries[k].tags = <<"urgent">>
    /\ \E k \in 1 .. 3 : entries[k].action = "stop" /\ entries[k].tags = <<"late">>
    /\ Cardinality(PlacesListed("work", "p1", "urgent")) = 1
    /\ Cardinality(PlacesListed("work", "p1", "client-x")) = 1
    /\ \A n \in 1 .. Len(out) : out[n] # "      - late"

\* H:MM for h hours and m minutes, the minutes on two digits
HoursMinutes(h, m) ==
    ToString(h) \o ":" \o (IF m < 10 THEN "0" ELSE "") \o ToString(m)

\* text is seconds rendered as H:MM: H the whole hours below seconds, MM the
\* whole minutes of what is left, a number of 0 .. 59
Renders(seconds, text) ==
    \E h \in -2 .. 2 * MaxHours + 2, m \in 0 .. 59 :
        /\ 3600 * h <= seconds /\ seconds < 3600 * (h + 1)
        /\ 60 * m <= seconds - 3600 * h /\ seconds - 3600 * h < 60 * (m + 1)
        /\ text = HoursMinutes(h, m)

\* C13: every duration a report prints, the total and the total of each
\* bucket, is rendered as H:MM with H = floor(s / 3600), written without
\* leading zero and not capped at a day, and MM = floor((s mod 3600) / 60), on
\* two digits and within 0 .. 59; seconds are cut off, never rounded: 5400 is
\* printed as 1:30 and 3599 as 0:59.
C13_HoursMinutesTruncated ==
    Reported =>
        /\ \E text \in { format_duration(total_seconds) } :
              /\ Renders(total_seconds, text)
              /\ out[3] = "Total: " \o text
        /\ \A k \in 1 .. Len(sorted_items) :
              \E n \in 1 .. Len(out), text \in { format_duration(sorted_items[k][2]) } :
                  /\ Renders(sorted_items[k][2], text)
                  /\ out[n] = "    " \o sorted_items[k][1][2] \o ": " \o text
        /\ total_seconds = 5400 => out[3] = "Total: 1:30"
        /\ total_seconds = 3599 => out[3] = "Total: 0:59"
        /\ total_seconds = 3600 * MaxHours + 3599 =>
              out[3] = "Total: " \o ToString(MaxHours) \o ":59"

\* C13 witness: a report of one session of 3599 seconds, printed as 0:59.
C13_Witness ==
    /\ Reported
    /\ Len(sessions) = 1
    /\ total_seconds = 3599
    /\ out[3] = "Total: 0:59"
    /\ out[7] = "    p1: 0:59"

\* the action of the entry is neither of the two words the commands know
OtherAction(entry) == entry.action # "start" /\ entry.action # "stop"

\* C14: an entry whose action is not exactly "start" or "stop", compared by
\* case, has no effect.  In summarize the pairing loop passes over it: no
\* queue changes, no session is emitted, nothing is printed, and the loop goes
\* on with the next entry; so every session, and with it every total, is made
\* of a start entry and a stop entry only.  In list_tags none of its tags is
\* printed, and the tags of the start events around it still are.
C14_OtherActionsIgnored ==
    /\ [][ (Stepping /\ OtherAction(entries[i]))
           => /\ pending_starts' = pending_starts
              /\ sessions' = sessions
              /\ out' = out
              /\ i' = i + 1
              /\ pc' = pc ]_vars
    /\ [](Pairing =>
            /\ \A n \in 1 .. Len(sessions) :
                  /\ entries[sessions[n].si].action = "start"
                  /\ entries[sessions[n].ei].action = "stop"
            /\ \A key \in DOMAIN pending_starts :
                  \A j \in 1 .. Len(pending_starts[key]) :
                      entries[pending_starts[key][j][3]].action = "start")
    /\ [](Listed =>
            \A c \in CategoriesRead, p \in ProjectsRead, t \in TagsRead :
                PlacesListed(c, p, t) # {} <=> OnSomeStart(c, p, t))

\* C14 witness: summarize has paired a start with a stop across an in-window
\* "pause" of the same key that lies between them in the log.
C14_Witness ==
    /\ Pairing /\ pc = "done"
    /\ Len(entries) = 3
    /\ entries[2].action = "pause"
    /\ InWin(entries[2])
    /\ <<entries[2].category, entries[2].project>>
         = <<entries[1].category, entries[1].project>>
    /\ Len(sessions) = 1
    /\ sessions[1].si = 1
    /\ sessions[1].ei = 3
    /\ total_seconds = 600

\* the report of a run with the tag breakdown
ReportedWithTags == Reported /\ show_tags

\* the number of times tag occurs in tags
TimesIn(tags, tag) == Cardinality({ j \in 1 .. Len(tags) : tags[j] = tag })

\* two tag sequences hold the same tags the same number of times
SameTags(a, b) ==
    \A tag \in { a[j] : j \in 1 .. Len(a) } \cup { b[j] : j \in 1 .. Len(b) } :
        TimesIn(a, tag) = TimesIn(b, tag)

\* the tags of the start entry a session came from
StartTags(n) == entries[sessions[n].si].tags

\* the places of the sessions of the k-th sorted bucket
BucketSessions(k) ==
    { n \in 1 .. Len(sessions) :
        <<sessions[n].category, sessions[n].project>> = sorted_items[k][1] }

\* the place, in the breakdown, of the project line of the k-th sorted bucket,
\* counting the headers, the blank lines and the tag lines printed before it
PlaceOfProject(k) ==
    LET RECURSIVE TagLinesBefore(_)
        TagLinesBefore(j) ==
            IF j = 0 THEN 0 ELSE TagLinesBefore(j - 1) + Len(tag_durations[j])
    IN  k + TagLinesBefore(k - 1) + 2 * Cardinality({ r \in RunStarts : r <= k }) - 1

\* the lines printed between the project line of the k-th sorted bucket and
\* the next header, project line or end of the breakdown
TagLinesPrinted(k) ==
    SubSeq(BreakdownOfReport, PlaceOfProject(k) + 1,
           IF k < Len(sorted_items)
           THEN PlaceOfProject(k + 1)
                  - (IF k + 1 \in RunStarts THEN 3 ELSE 1)
           ELSE Len(BreakdownOfReport))

\* the text printed for a tag key
TagText(key) ==
    IF key = <<>> THEN "[no tags]"
    ELSE LET RECURSIVE Joined(_)
             Joined(n) == IF n = 1 THEN key[1] ELSE Joined(n - 1) \o ", " \o key[n]
         IN  "[" \o Joined(Len(key)) \o "]"

\* C15: a session carries the tag sequence of the start entry it came from,
\* and so does a pending start; the tags of stop entries are kept nowhere:
\* every key of the tag breakdown holds the tags of the start of a session of
\* its bucket, and every tag line printed is the line of such a key.
C15_TagsFromStart ==
    /\ Pairing =>
          /\ \A n \in 1 .. Len(sessions) : sessions[n].tags = StartTags(n)
          /\ \A key \in DOMAIN pending_starts :
                \A j \in 1 .. Len(pending_starts[key]) :
                    pending_starts[key][j][2] = entries[pending_starts[key][j][3]].tags
    /\ ReportedWithTags =>
          \A k \in 1 .. Len(sorted_items) :
              /\ BreakdownOfReport[PlaceOfProject(k)] = ProjectLine(sorted_items[k])
              /\ \A j \in 1 .. Len(tag_durations[k]) :
                    \E n \in BucketSessions(k) :
                        SameTags(tag_durations[k][j][1], StartTags(n))
              /\ \A l \in 1 .. Len(TagLinesPrinted(k)) :
                    \E j \in 1 .. Len(tag_durations[k]) :
                        TagLinesPrinted(k)[l]
                          = "      " \o TagText(tag_durations[k][j][1]) \o ": "
                              \o format_duration(tag_durations[k][j][2])

\* C15 witness: a report with the tag breakdown of a session whose start
\* carries urgent and whose stop carries late: the breakdown has the line of
\* urgent and the session holds the tags of the start.
C15_Witness ==
    /\ ReportedWithTags
    /\ Len(sessions) = 1
    /\ StartTags(1) = <<"urgent">>
    /\ entries[sessions[1].ei].tags = <<"late">>
    /\ sessions[1].tags = <<"urgent">>
    /\ TagLinesPrinted(1) = <<"      [urgent]: 0:10">>

\* the tags of a key stand in ascending order
InOrder(key) == \A j \in 1 .. Len(key) - 1 : ~StrLess(key[j + 1], key[j])

\* the sub-buckets of the k-th sorted bucket that hold the tags of session n
SubBucketsOf(k, n) ==
    { j \in 1 .. Len(tag_durations[k]) :
        SameTags(tag_durations[k][j][1], sessions[n].tags) }

\* C16: in the tag breakdown the sessions of a bucket are grouped by their
\* tags put in ascending order.  Each key is in order and no two keys hold
\* the same tags; each session of the bucket falls in the one sub-bucket
\* whose key holds its tags as often as the session does, so two sessions whose
\* tags differ only in order share a sub-bucket, and two whose tags differ in
\* a tag or in how often a tag occurs (urgent twice against urgent once) do
\* not; the sessions without tags have a sub-bucket of their own, of the
\* empty key, printed as [no tags]; and one line is printed for each
\* sub-bucket.
C16_GroupedBySortedTags ==
    ReportedWithTags =>
        \A k \in 1 .. Len(sorted_items) :
            /\ \A j \in 1 .. Len(tag_durations[k]) : InOrder(tag_durations[k][j][1])
            /\ \A j1, j2 \in 1 .. Len(tag_durations[k]) :
                  j1 # j2 => ~SameTags(tag_durations[k][j1][1], tag_durations[k][j2][1])
            /\ \A n \in BucketSessions(k) : Cardinality(SubBucketsOf(k, n)) = 1
            /\ \A n, m \in BucketSessions(k) :
                  SubBucketsOf(k, n) = SubBucketsOf(k, m)
                    <=> SameTags(sessions[n].tags, sessions[m].tags)
            /\ \A j \in 1 .. Len(tag_durations[k]) :
                  \E n \in BucketSessions(k) : j \in SubBucketsOf(k, n)
            /\ \A n \in BucketSessions(k) :
                  sessions[n].tags = <<>> =>
                      /\ \E j \in SubBucketsOf(k, n) : tag_durations[k][j][1] = <<>>
                      /\ \E l \in 1 .. Len(TagLinesPrinted(k)) :
                            TagLinesPrinted(k)[l]
                              = "      [no tags]: "
                                  \o format_duration(
                                       tag_durations[k][CHOOSE j \in SubBucketsOf(k, n) : TRUE][2])
            /\ Len(TagLinesPrinted(k)) = Len(tag_durations[k])
            /\ \A j \in 1 .. Len(tag_durations[k]) :
                  \E l \in 1 .. Len(TagLinesPrinted(k)) :
                      TagLinesPrinted(k)[l]
                        = "      " \o TagText(tag_durations[k][j][1]) \o ": "
                            \o format_duration(tag_durations[k][j][2])

\* C16 witness: three sessions of work/p1 tagged urgent client-x, client-x
\* urgent and not at all, of ten minutes each: the first two share the
\* sub-bucket [client-x, urgent], the third has [no tags].
C16_Witness ==
    /\ ReportedWithTags
    /\ Len(sessions) = 3
    /\ sessions[1].tags = <<"urgent", "client-x">>
    /\ sessions[2].tags = <<"client-x", "urgent">>
    /\ sessions[3].tags = <<>>
    /\ Len(sorted_items) = 1
    /\ tag_durations[1] = << <<<<"client-x", "urgent">>, 1200>>, <<<<>>, 600>> >>
    /\ TagLinesPrinted(1) = <<"      [client-x, urgent]: 0:20", "      [no tags]: 0:10">>

\* 2024-01-01 00:00, a Monday
KnownMonday == Midnight(2024, 1, 1)

\* t is the first second of a Monday
MondayMidnight(t) == (t - KnownMonday) % (7 * Day) = 0

\* C17: for the period week and every clock, the window starts at 00:00 of
\* the latest Monday that is not after the local date of now, which is today
\* when now is a Monday, and ends seven days later: with Monday counted 0 and
\* Sunday 6, the start lies as many days before today as today's number.
C17_WeekFromMonday ==
    (Pairing /\ period = "week") =>
        LET today == now_eastern - (now_eastern % Day)
        IN  /\ MondayMidnight(start_time)
            /\ start_time <= today
            /\ today - start_time <= 6 * Day
            /\ \A t \in { today - Day * d : d \in 0 .. 6 } :
                  (MondayMidnight(t) /\ t <= today) => t <= start_time
            /\ MondayMidnight(today) => start_time = today
            /\ end_time = start_time + 7 * Day
            /\ start_time <= now_eastern /\ now_eastern < end_time

\* C17 witness: at the last second of Sunday 2025-01-05 the week runs from
\* Monday 2024-12-30 to Monday 2025-01-06, and a stop of that second is inside.
C17_Witness ==
    /\ Pairing /\ pc = "done"
    /\ period = "week"
    /\ now_eastern = Midnight(2025, 1, 5) + Day - 1
    /\ start_time = Midnight(2024, 12, 30)
    /\ end_time = Midnight(2025, 1, 6)
    /\ Len(sessions) = 1
    /\ sessions[1].end = now_eastern

\* the instant lies in the window [start_time, end_time)
Inside(t) == start_time <= t /\ t < end_time

\* the sum of end - start over the sessions at the places of S, the instants
\* read from the log entries the sessions came from
RECURSIVE SumOfIntervals(_)
SumOfIntervals(S) ==
    IF S = {} THEN 0
    ELSE LET n == CHOOSE x \in S : TRUE
         IN  entries[sessions[n].ei].timestamp - entries[sessions[n].si].timestamp
               + SumOfIntervals(S \ {n})

\* C18: every session has its start and its end inside the window
\* [start_time, end_time), and they are the instants of the start entry and
\* of the stop entry it pairs.  An entry outside the window is part of no
\* session and of no pending start, so an interval whose start lies before
\* the window, or whose stop lies at or after its end, gives no session; and
\* the total printed is made of in-window intervals only.
C18_SessionsInsideWindow ==
    /\ Pairing =>
          /\ \A n \in 1 .. Len(sessions) :
                /\ Inside(sessions[n].start) /\ Inside(sessions[n].end)
                /\ sessions[n].start = entries[sessions[n].si].timestamp
                /\ sessions[n].end = entries[sessions[n].ei].timestamp
          /\ \A a \in 1 .. Len(entries) :
                ~Inside(entries[a].timestamp) =>
                    /\ \A n \in 1 .. Len(sessions) :
                          sessions[n].si # a /\ sessions[n].ei # a
                    /\ \A key \in DOMAIN pending_starts :
                          \A j \in 1 .. Len(pending_starts[key]) :
                              pending_starts[key][j][3] # a
    /\ Reported => total_seconds = SumOfIntervals(1 .. Len(sessions))

\* C18 witness: of a start one second before the window, a start at its first
\* second and a stop at its last, in this order and of one key, the run has
\* made one session, from the second start to the stop.
C18_Witness ==
    /\ Pairing /\ pc = "done"
    /\ Len(entries) = 3
    /\ entries[1].action = "start" /\ entries[1].timestamp = start_time - 1
    /\ entries[2].action = "start" /\ entries[2].timestamp = start_time
    /\ entries[3].action = "stop" /\ entries[3].timestamp = end_time - 1
    /\ Len(sessions) = 1
    /\ sessions[1].si = 2 /\ sessions[1].ei = 3
    /\ total_seconds = end_time - 1 - start_time

\* the (category, project) pair written on an entry
PairOn(entry) == <<entry.category, entry.project>>

\* the pairs written on the entries of the log
PairsOfLog == { PairOn(entries[k]) : k \in 1 .. Len(entries) }

\* the pending queue of a pair, empty when the pair has none yet
QueueOf(pending, pair) == IF pair \in DOMAIN pending THEN pending[pair] ELSE <<>>

\* the sessions of a pair, in the order emitted
SessionsOn(sess, pair) ==
    SelectSeq(sess, LAMBDA x : <<x.category, x.project>> = pair)

\* the places, among the entries gone through, of the in-window starts of a pair
StartsGoneThrough(pair) ==
    { k \in 1 .. Processed : /\ PairOn(entries[k]) = pair
                             /\ entries[k].action = "start"
                             /\ Inside(entries[k].timestamp) }

\* the places in the log of the starts held in the queues
PendingPlaces ==
    UNION { { pending_starts[key][j][3] : j \in 1 .. Len(pending_starts[key]) } :
            key \in DOMAIN pending_starts }

\* C19: pairing is kept apart for each (category, project) pair and uses each
\* event at most once.  An iteration on an entry of one pair leaves the queue
\* and the sessions of every other pair as they were; a session has the pair
\* of its start entry and of its stop entry; no start is in two sessions, or
\* in a session and still pending, or twice pending, and no stop is in two
\* sessions; and after any number of entries, for each pair, the number of its
\* sessions plus the length of its queue is the number of its in-window
\* starts gone through.
C19_PairingPerKey ==
    /\ [][ Stepping =>
             \A pair \in PairsOfLog \ {PairOn(entries[i])} :
                 /\ QueueOf(pending_starts', pair) = QueueOf(pending_starts, pair)
                 /\ SessionsOn(sessions', pair) = SessionsOn(sessions, pair) ]_vars
    /\ [](Pairing =>
            /\ DOMAIN pending_starts \subseteq PairsOfLog
            /\ \A n \in 1 .. Len(sessions) :
                  /\ PairOn(entries[sessions[n].si]) = PairOn(sessions[n])
                  /\ PairOn(entries[sessions[n].ei]) = PairOn(sessions[n])
                  /\ sessions[n].si \notin PendingPlaces
            /\ \A n, m \in 1 .. Len(sessions) :
                  n # m => /\ sessions[n].si # sessions[m].si
                           /\ sessions[n].ei # sessions[m].ei
            /\ \A key \in DOMAIN pending_starts :
                  /\ \A j \in 1 .. Len(pending_starts[key]) :
                        PairOn(entries[pending_starts[key][j][3]]) = key
                  /\ \A j1, j2 \in 1 .. Len(pending_starts[key]) :
                        j1 # j2 => pending_starts[key][j1][3] # pending_starts[key][j2][3]
            /\ \A pair \in PairsOfLog :
                  Len(SessionsOn(sessions, pair)) + Len(QueueOf(pending_starts, pair))
                    = Cardinality(StartsGoneThrough(pair)))

\* C19 witness: with a start of work/p1 and a start of home/p1 pending, a stop
\* of home/p1 has closed the start of home/p1 and left that of work/p1 in its
\* queue.
C19_Witness ==
    /\ Pairing
    /\ Processed = 3
    /\ PairOn(entries[1]) = K1 /\ entries[1].action = "start" /\ Inside(entries[1].timestamp)
    /\ PairOn(entries[2]) = K2 /\ entries[2].action = "start"
    /\ PairOn(entries[3]) = K2 /\ entries[3].action = "stop"
    /\ Len(sessions) = 1
    /\ sessions[1].si = 2 /\ sessions[1].ei = 3
    /\ Len(QueueOf(pending_starts, K1)) = 1
    /\ pending_starts[K1][1][3] = 1
    /\ QueueOf(pending_starts, K2) = <<>>

\* the sum of the seconds of the sub-buckets of a tag_durations dict from the
\* j-th on
RECURSIVE SumOfSubBuckets(_, _)
SumOfSubBuckets(dict, j) ==
    IF j > Len(dict) THEN 0 ELSE dict[j][2] + SumOfSubBuckets(dict, j + 1)

\* the places of the sessions of the k-th sorted bucket counted in its j-th
\* sub-bucket
SessionsIn(k, j) == { n \in BucketSessions(k) : j \in SubBucketsOf(k, n) }

\* C20: in a report with the tag breakdown, for every bucket, the seconds of
\* its tag sub-buckets, that of the sessions without tags among them, add up
\* to the bucket's total; each sub-bucket holds the sum of the durations of
\* its sessions; and every session of the bucket is counted in exactly one
\* sub-bucket, a session of another bucket in none.
C20_SubBucketsAddUp ==
    ReportedWithTags =>
        /\ Len(tag_durations) = Len(sorted_items)
        /\ \A k \in 1 .. Len(sorted_items) :
              /\ SumOfSubBuckets(tag_durations[k], 1) = sorted_items[k][2]
              /\ \A j \in 1 .. Len(tag_durations[k]) :
                    /\ SessionsIn(k, j) # {}
                    /\ tag_durations[k][j][2] = SumOfDurations(SessionsIn(k, j))
              /\ \A n \in BucketSessions(k) :
                    Cardinality({ j \in 1 .. Len(tag_durations[k]) : n \in SessionsIn(k, j) }) = 1
              /\ UNION { SessionsIn(k, j) : j \in 1 .. Len(tag_durations[k]) }
                   = BucketSessions(k)
              /\ SumOfDurations(BucketSessions(k)) = sorted_items[k][2]

\* C20 witness: work/p1 has a session of 600 s tagged urgent and one of 3599 s
\* without tags, work/p2 one of 600 s tagged urgent: the sub-buckets of
\* work/p1 hold 600 and 3599 and its total is 4199.
C20_Witness ==
    /\ ReportedWithTags
    /\ Len(sessions) = 3
    /\ sorted_items = << <<K1, 4199>>, <<K3, 600>> >>
    /\ tag_durations[1] = << <<<<"urgent">>, 600>>, <<<<>>, 3599>> >>
    /\ tag_durations[2] = << <<<<"urgent">>, 600>> >>
    /\ \E l \in 1 .. Len(out) : out[l] = "      [no tags]: 0:59"
    /\ \E l \in 1 .. Len(out) : out[l] = "    p1: 1:09"

====
